---- MODULE Spec2Model ----
(***************************************************************************)
(* Model of src/main.py: a Reddit downloader.  main() walks a list of      *)
(* communities; for each, download_submissions_and_comments() drives the   *)
(* generator iter_new_until() over the community's "new" feed, expands the *)
(* comments of every yielded post and sinks the result, either in two      *)
(* buffered NDJSON files or in one text file.                              *)
(*                                                                         *)
(* The upstream API is the environment: what a community's feed holds, and *)
(* which exception a request raises, are chosen nondeterministically.      *)
(***************************************************************************)
EXTENDS Integers, Sequences, FiniteSets, TLC

\* Python's None for the optional integers (after, before, limit_posts).
\* Timestamps and limits of the model are >= 0.
None == 0 - 1

\* A JSON value int() does not convert (a non-numeric string), as the
\* created_utc of a line of a submissions file.
NotANumber == 0 - 2

\* Flush thresholds of the NDJSON buffers.
PostsFlushAt == 50
CmtsFlushAt == 200

\* Bounds of the inputs.
MaxFeedLen == 3
MaxTs == 3
MaxLimit == 2
MaxSinkLen == 2
BulkSlack == 1

Names == {"a", "b"}

\* reddit.subreddit() never returns this; resolve_subreddit() does.
NoSubreddit == "<None>"

\* What the existence/access probe sr._fetch() meets for a community.
AccessClasses == {"ok", "redirect", "notfound", "forbidden", "quarantined", "unknown"}

\* Exception classes a request to the API raises; "Other" is any class that
\* is not prawcore's Redirect, NotFound or Forbidden.
Exceptions == {"Redirect", "NotFound", "Forbidden", "Other"}

VARIABLES
    subreddits,        \* main: the list of requested communities
    sr_i,              \* main: position of the for loop in subreddits
    main_pc,           \* main: "loop", "returned", "aborted" (exception left main)
    after, before,     \* args: time window, None or epoch seconds
    limit_posts,       \* args: --limit, None or an integer
    plain,             \* args: --plain
    include_comments,  \* args: not --no-comments
    access,            \* environment: community -> access class
    upstream,          \* environment: community -> its "new" feed, newest first
    pc,                \* download: "idle", "fetching", "sinking", "flushing", "raised"
    pos,               \* iter_new_until: number of feed items scanned
    count,             \* iter_new_until: count
    yielded,           \* iter_new_until: suspended at its yield
    submissions_buf,   \* download: submissions_buf
    comments_buf,      \* download: comments_buf
    subs_saved,        \* download: subs_saved
    cmts_saved,        \* download: cmts_saved
    txt_file,          \* download: txt_file: "none", "open", "closed"
    txt_pending,       \* text written to txt_file and not yet flushed
    sub_file,          \* disk: community -> lines of <name>.submissions.ndjson
    cmt_file,          \* disk: community -> lines of <name>.comments.ndjson
    txt_disk,          \* disk: community -> blocks of <name>.txt
    state,             \* history: list position -> state of that community's run
    emitted,           \* history: ids iter_new_until yielded in this run
    expanded,          \* history: ids whose comments were expanded in this run
    sunk,              \* history: per processed post, its id and comment count
    sub_base,          \* history: submissions file when this run began
    cmt_base,          \* history: comments file when this run began
    txt_base,          \* history: text file when this run began
    sub_flushes,       \* history: sizes of this run's ndjson_append(sub_path, ..)
    existing_oldest,   \* download: _existing_oldest (None when not computed)
    gen_after,         \* iter_new_until: its parameter `after`
    printed,           \* what the call in progress has printed, in order
    call,              \* a call of one of the pure functions: name and arguments
    ret                \* what that call returned or raised

vars == <<subreddits, sr_i, main_pc, after, before, limit_posts, plain,
          include_comments, access, upstream, pc, pos, count, yielded,
          submissions_buf, comments_buf, subs_saved, cmts_saved, txt_file,
          txt_pending, sub_file, cmt_file, txt_disk, state, emitted, expanded,
          sunk, sub_base, cmt_base, txt_base, sub_flushes, existing_oldest,
          gen_after, printed, call, ret>>

args == <<subreddits, after, before, limit_posts, plain, include_comments>>
env == <<access, upstream>>
gen == <<pos, count, yielded>>
locals == <<submissions_buf, comments_buf, subs_saved, cmts_saved>>
disk == <<sub_file, cmt_file, txt_disk>>
bases == <<sub_base, cmt_base, txt_base>>
resume == <<existing_oldest, gen_after>>
pure == <<call, ret>>

\* Every variable of main and download_submissions_and_comments.
program == <<args, env, sr_i, main_pc, pc, gen, locals, txt_file, txt_pending,
             disk, state, emitted, expanded, sunk, bases, sub_flushes, resume,
             printed>>

(***************************************************************************)
(* Records                                                                 *)
(***************************************************************************)

\* A feed item: its creation time, the comment count it reports, and the
\* number of comments its expanded comment forest lists.
Item(cu, nc, tr) == [created_utc |-> cu, num_comments |-> nc, tree |-> tr]

\* s_norm: the normalized submission (the fields the claims read).
s_norm(i, s) == [id |-> i, created_utc |-> s.created_utc,
                 num_comments |-> s.num_comments]

\* s.comments.list() after replace_more, each comment normalized.
comments_list(i, s) == [j \in 1..s.tree |-> [link_id |-> i, id |-> j]]

HeaderLine == [kind |-> "header", id |-> 0, comments |-> <<>>]

\* txt_write_post_block: one block per post, its comments inside.
txt_write_post_block_bare(post, comments) ==
    [kind |-> "post", id |-> post.id, comments |-> <<>>]

txt_write_post_block(post, comments) ==
    [kind |-> "post", id |-> post.id, comments |-> comments]

(***************************************************************************)
(* Pure helpers, each the translation of one piece of src/main.py          *)
(***************************************************************************)

\* resolve_subreddit: the probe sr._fetch() and the quarantine test; every
\* failure is printed and None is returned.
resolve_subreddit(name) ==
    IF access[name] = "ok" THEN name ELSE NoSubreddit

\* reddit.subreddit(name): PRAW builds a lazy handle and sends no request,
\* so the result is never None.
reddit_subreddit(name) == name

\* The exceptions a request about a community can raise.  A community the
\* probe would accept can still fail at any request (access revoked, removed,
\* server or network error); the others fail the way the probe would, a
\* quarantined one with the 403 of a community not opted into.
Raises(acc) ==
    CASE acc = "ok" -> Exceptions
      [] acc = "redirect" -> {"Redirect"}
      [] acc = "notfound" -> {"NotFound"}
      [] acc = "forbidden" -> {"Forbidden"}
      [] acc = "quarantined" -> {"Forbidden"}
      [] OTHER -> {"Other"}

\* except (Redirect, NotFound, Forbidden)
Caught == {"Redirect", "NotFound", "Forbidden"}

\* iter_new_until, the body of its loop for one item: "skip" is continue,
\* "stop" is break, "yield" hands the item to the caller.
ScanOutcome_break(cu, b, a) ==
    IF b # None /\ cu > b THEN "stop"
    ELSE IF a # None /\ cu < a THEN "stop"
    ELSE "yield"

ScanOutcome_no_after(cu, b, a) ==
    IF b # None /\ cu > b THEN "skip" ELSE "yield"

ScanOutcome(cu, b, a) ==
    IF b # None /\ cu > b THEN "skip"
    ELSE IF a # None /\ cu < a THEN "stop"
    ELSE "yield"

\* iter_new_until: `if hard_limit and count >= hard_limit`; None and 0 are
\* both falsy in Python.
LimitReached(hard_limit, cnt) ==
    hard_limit # None /\ hard_limit # 0 /\ cnt >= hard_limit

\* `if include_comments and s.num_comments`
ShouldExpand_always(inc, nc) == inc

ShouldExpand(inc, nc) == inc /\ nc # 0

\* `if len(submissions_buf) >= 50`
PostsFlushDue_gt(buf) == Len(buf) > PostsFlushAt

PostsFlushDue(buf) == Len(buf) >= PostsFlushAt

\* `if len(comments_buf) >= 200`
CmtsFlushDue_never(buf) == FALSE

CmtsFlushDue(buf) == Len(buf) >= CmtsFlushAt

\* ndjson_append: one line per item, appended to what the file holds.
ndjson_append_truncate(file, items) == items

ndjson_append(file, items) == file \o items

\* The flush after the loop: `if submissions_buf: ndjson_append(...)`.
FinalFlush_skip(file, buf) == file

FinalFlush(file, buf) == IF buf # <<>> THEN ndjson_append(file, buf) ELSE file

\* The except clause: it prints and returns, and writes nothing.
OnFailed_flush(file, buf) == ndjson_append(file, buf)

OnFailed(file, buf) == file

\* `os.path.getsize(txt_path) == 0`
NeedsHeader_always(contents) == TRUE

NeedsHeader(contents) == Len(contents) = 0

\* finally: `if txt_file: txt_file.flush(); txt_file.close()`
FinallyClose_noop(handle) == handle

FinallyClose(handle) == IF handle = "open" THEN "closed" ELSE handle

\* What is printed: the text, the community names it contains and the
\* exception class it contains ("" when none).
\* tqdm(desc=f"Submissions r/{subreddit_name}")
ProgressBar(name) ==
    [text |-> "Submissions", mentions |-> {name}, classification |-> ""]

\* print(f" skipping because we subbredit is private or no longer exists
\* {e.__class__.__name__} downloaded:")
SkippingMessage(name, e) ==
    [text |-> "skipping", mentions |-> {}, classification |-> e]

\* The two "[ok] Saved" lines; the second only with comments, and naming the
\* comments file only in line-delimited mode.
SavedMessages(name, inc, txt) ==
    <<[text |-> "Saved posts", mentions |-> {name}, classification |-> ""]>>
        \o (IF inc
            THEN <<[text |-> "Saved comments",
                    mentions |-> IF txt THEN {} ELSE {name},
                    classification |-> ""]>>
            ELSE <<>>)

\* last_submission_ts, the body of its loop for one line: json.loads raises
\* on invalid JSON, d.get raises on JSON that is not an object, int() raises
\* on null and on a non-numeric string; the except clause is `continue`.
LineRaises(line) ==
    \/ "raw" \in DOMAIN line
    \/ "created_utc" \in DOMAIN line /\ line.created_utc \in {None, NotANumber}

\* int(d.get("created_utc", 0))
LineStamp(line) ==
    IF "created_utc" \in DOMAIN line THEN line.created_utc ELSE 0

RECURSIVE ScanLines(_, _)
ScanLines(lines, last_ts) ==
    IF lines = <<>> THEN last_ts
    ELSE IF LineRaises(Head(lines)) THEN ScanLines(Tail(lines), last_ts)
    ELSE LET cu == LineStamp(Head(lines))
         IN ScanLines(Tail(lines),
                      IF last_ts = None \/ cu < last_ts THEN cu ELSE last_ts)

\* last_submission_ts(path): None if the file does not exist.
last_submission_ts(exists, lines) ==
    IF ~exists THEN None ELSE ScanLines(lines, None)

\* The `after` that download_submissions_and_comments hands to
\* iter_new_until: its own argument, whatever the probe found.
LowerBound_resume(a, oldest) == IF a = None THEN oldest ELSE a

LowerBound(a, oldest) == a

(***************************************************************************)
(* The run in progress                                                     *)
(***************************************************************************)

\* List position of the latest call of download_submissions_and_comments
\* (0 before the first).
run == IF pc = "idle" THEN sr_i - 1 ELSE sr_i

name_of(i) == subreddits[i]

feed == upstream[name_of(run)]

\* The next step of the run raises e.  A listing request is sent when the
\* generator has to scan on (not when the limit ends it); the comment
\* requests are sent when the post's comments are expanded; and in text mode
\* the write of the post's block can raise too (an encoding or I/O error),
\* with an exception no except clause names.
CanRaise(e) ==
    /\ pc \in {"fetching", "sinking"}
    /\ IF pc = "fetching"
       THEN /\ e \in Raises(access[name_of(sr_i)])
            /\ ~(yielded /\ LimitReached(limit_posts, count + 1))
       ELSE e \in (IF ShouldExpand(include_comments, feed[pos].num_comments)
                   THEN Raises(access[name_of(sr_i)])
                   ELSE IF plain THEN {"Other"} ELSE {})

\* The ids whose comment requests the run has sent, after this step.
ExpandedAfterRaise ==
    IF pc = "sinking" /\ ShouldExpand(include_comments, feed[pos].num_comments)
    THEN expanded \cup {pos} ELSE expanded

(***************************************************************************)
(* Inputs                                                                  *)
(***************************************************************************)

SeqsUpTo(S, n) == UNION {[1..k -> S] : k \in 0..n}

Stamps == 1..MaxTs
OptStamps == {None} \cup Stamps
OptLimits == {None} \cup (0..MaxLimit)

\* Feeds of posts without comments, every order of creation times.
WindowFeeds == SeqsUpTo({Item(t, 0, 0) : t \in Stamps}, MaxFeedLen)

\* Feeds of posts that report no comment (while the forest lists one) or two.
SinkFeeds == SeqsUpTo({Item(2, 0, 1), Item(2, 2, 2)}, MaxSinkLen)

\* Long feeds, to fill the buffers: n posts of k comments each, and a feed
\* led by one post whose comments alone fill the comments buffer.
BulkLens == {m * PostsFlushAt + d : m \in 1..2, d \in 0..BulkSlack}
BulkFeeds == {[i \in 1..n |-> Item(2, k, k)] : n \in BulkLens, k \in {0, 3, 4}}
                \cup {<<Item(2, CmtsFlushAt, CmtsFlushAt), Item(2, 0, 0)>>}

\* What a community is upstream: accessible with a feed, or not accessible.
SinkEnvs == {<<"ok", f>> : f \in SinkFeeds}
                \cup {<<c, <<>>>> : c \in AccessClasses \ {"ok"}}

\* Fresh process, empty output directory.
InitRun ==
    /\ sr_i = 1 /\ main_pc = "loop" /\ pc = "idle"
    /\ pos = 0 /\ count = 0 /\ yielded = FALSE
    /\ submissions_buf = <<>> /\ comments_buf = <<>>
    /\ subs_saved = 0 /\ cmts_saved = 0
    /\ txt_file = "none" /\ txt_pending = <<>>
    /\ sub_file = [n \in Names |-> <<>>]
    /\ cmt_file = [n \in Names |-> <<>>]
    /\ txt_disk = [n \in Names |-> <<>>]
    /\ state = [i \in 1..Len(subreddits) |-> "Pending"]
    /\ emitted = <<>> /\ expanded = {} /\ sunk = <<>>
    /\ sub_base = <<>> /\ cmt_base = <<>> /\ txt_base = <<>>
    /\ sub_flushes = <<>>
    /\ existing_oldest = None /\ gen_after = None
    /\ printed = <<>>

\* One community, every time window and limit, every order of the feed.
InitWindow ==
    /\ subreddits = <<"a">>
    /\ access = [n \in Names |-> "ok"]
    /\ \E f \in WindowFeeds : upstream = [n \in Names |-> IF n = "a" THEN f ELSE <<>>]
    /\ after \in OptStamps /\ before \in OptStamps
    /\ limit_posts \in OptLimits
    /\ plain = FALSE /\ include_comments = TRUE
    /\ InitRun

\* One or two communities (or one community twice), accessible or not, both
\* output modes, with and without comments.
InitSink ==
    /\ subreddits \in {<<"a">>, <<"a", "a">>, <<"a", "b">>}
    /\ \E ea \in SinkEnvs, eb \in SinkEnvs :
          /\ (Len(subreddits) = 1 \/ subreddits[Len(subreddits)] = "a")
                => eb = <<"ok", <<>>>>
          /\ access = [n \in Names |-> IF n = "a" THEN ea[1] ELSE eb[1]]
          /\ upstream = [n \in Names |-> IF n = "a" THEN ea[2] ELSE eb[2]]
    /\ after = None /\ before = None /\ limit_posts = None
    /\ plain \in BOOLEAN /\ include_comments \in BOOLEAN
    /\ InitRun

\* One community with a long feed, line-delimited mode.
InitBulk ==
    /\ subreddits = <<"a">>
    /\ access = [n \in Names |-> "ok"]
    /\ \E f \in BulkFeeds : upstream = [n \in Names |-> IF n = "a" THEN f ELSE <<>>]
    /\ after = None /\ before = None
    /\ limit_posts \in {None, PostsFlushAt}
    /\ plain = FALSE /\ include_comments = TRUE
    /\ InitRun

\* No call of a pure function.
NoCall == [fn |-> "none"]
NoRet == [kind |-> "none"]

Init ==
    /\ InitWindow \/ InitSink \/ InitBulk
    /\ call = NoCall /\ ret = NoRet

(***************************************************************************)
(* main and download_submissions_and_comments                              *)
(***************************************************************************)

\* main's loop calls download_submissions_and_comments for the next
\* community; the call runs up to its try statement: the handle, the (unused)
\* resume probe, the counters and buffers, the text file and its header.
Download ==
    /\ main_pc = "loop" /\ pc = "idle" /\ sr_i <= Len(subreddits)
    /\ LET name == subreddits[sr_i]
           sr == reddit_subreddit(name)
       IN IF sr = NoSubreddit
          THEN /\ state' = [state EXCEPT ![sr_i] = "Skipped"]
               /\ sr_i' = sr_i + 1
               /\ printed' = <<>>
               /\ UNCHANGED <<pc, gen, locals, txt_file, txt_pending, emitted,
                              expanded, sunk, bases, sub_flushes, resume>>
          ELSE /\ state' = [state EXCEPT ![sr_i] = "Fetching"]
               /\ pc' = "fetching"
               /\ pos' = 0 /\ count' = 0 /\ yielded' = FALSE
               /\ submissions_buf' = <<>> /\ comments_buf' = <<>>
               /\ subs_saved' = 0 /\ cmts_saved' = 0
               /\ txt_file' = IF plain THEN "open" ELSE "none"
               /\ txt_pending' = IF plain /\ NeedsHeader(txt_disk[name])
                                 THEN <<HeaderLine>> ELSE <<>>
               /\ emitted' = <<>> /\ expanded' = {} /\ sunk' = <<>>
               /\ sub_base' = sub_file[name]
               /\ cmt_base' = cmt_file[name]
               /\ txt_base' = txt_disk[name]
               /\ sub_flushes' = <<>>
               /\ existing_oldest' =
                     IF after = None
                     THEN last_submission_ts(sub_file[name] # <<>>, sub_file[name])
                     ELSE None
               /\ gen_after' = LowerBound(after, existing_oldest')
               /\ printed' = <<ProgressBar(name)>>
               /\ UNCHANGED sr_i
    /\ UNCHANGED <<main_pc, args, env, disk, pure>>

\* iter_new_until, resumed by the for loop: after a yield, count the item and
\* test the limit; then take the next item of the listing and skip it, stop
\* at it or yield it.  StopIteration ends the for loop.
IterNewUntil ==
    /\ pc = "fetching"
    /\ access[name_of(sr_i)] = "ok"
    /\ LET cnt == IF yielded THEN count + 1 ELSE count
       IN /\ count' = cnt
          /\ IF yielded /\ LimitReached(limit_posts, cnt)
             THEN pc' = "flushing" /\ yielded' = FALSE
                  /\ UNCHANGED <<pos, emitted>>
             ELSE IF pos = Len(feed)
             THEN pc' = "flushing" /\ yielded' = FALSE
                  /\ UNCHANGED <<pos, emitted>>
             ELSE LET cu == feed[pos + 1].created_utc
                      out == ScanOutcome(cu, before, gen_after)
                  IN /\ pos' = pos + 1
                     /\ pc' = CASE out = "skip" -> "fetching"
                                [] out = "stop" -> "flushing"
                                [] OTHER -> "sinking"
                     /\ yielded' = (out = "yield")
                     /\ emitted' = IF out = "yield"
                                   THEN Append(emitted, pos + 1) ELSE emitted
    /\ UNCHANGED <<sr_i, main_pc, args, env, locals, txt_file, txt_pending,
                   disk, state, expanded, sunk, bases, sub_flushes, resume,
                   printed, pure>>

\* The body of the for loop for the post s the generator yielded: normalize,
\* expand the comments, write the block (text) or buffer and flush (NDJSON).
LoopBody ==
    /\ pc = "sinking"
    /\ LET name == name_of(sr_i)
           s == feed[pos]
           post == s_norm(pos, s)
           expand == ShouldExpand(include_comments, s.num_comments)
           current_comments == IF expand THEN comments_list(pos, s) ELSE <<>>
           sbuf == Append(submissions_buf, post)
           cbuf == comments_buf \o current_comments
       IN /\ expanded' = IF expand THEN expanded \cup {pos} ELSE expanded
          /\ sunk' = Append(sunk, [id |-> pos, n |-> Len(current_comments)])
          /\ subs_saved' = subs_saved + 1
          /\ cmts_saved' = cmts_saved + Len(current_comments)
          /\ IF plain
             THEN /\ txt_pending' = Append(txt_pending,
                                       txt_write_post_block(post, current_comments))
                  /\ UNCHANGED <<submissions_buf, comments_buf, sub_file,
                                 cmt_file, sub_flushes>>
             ELSE /\ submissions_buf' = IF PostsFlushDue(sbuf) THEN <<>> ELSE sbuf
                  /\ sub_file' = IF PostsFlushDue(sbuf)
                                 THEN [sub_file EXCEPT ![name] = ndjson_append(@, sbuf)]
                                 ELSE sub_file
                  /\ sub_flushes' = IF PostsFlushDue(sbuf)
                                    THEN Append(sub_flushes, Len(sbuf))
                                    ELSE sub_flushes
                  /\ comments_buf' = IF CmtsFlushDue(cbuf) THEN <<>> ELSE cbuf
                  /\ cmt_file' = IF CmtsFlushDue(cbuf)
                                 THEN [cmt_file EXCEPT ![name] = ndjson_append(@, cbuf)]
                                 ELSE cmt_file
                  /\ UNCHANGED txt_pending
    /\ pc' = "fetching"
    /\ UNCHANGED <<sr_i, main_pc, args, env, gen, txt_file, txt_disk, state,
                   emitted, bases, resume, printed, pure>>

\* The for loop has ended: the remaining buffers are appended, the finally
\* clause flushes and closes the text file, the totals are printed and the
\* call returns to main's loop.
Finish ==
    /\ pc = "flushing"
    /\ LET name == name_of(sr_i)
       IN /\ sub_file' = IF plain THEN sub_file
                         ELSE [sub_file EXCEPT ![name] = FinalFlush(@, submissions_buf)]
          /\ sub_flushes' = IF sub_file'[name] # sub_file[name]
                            THEN Append(sub_flushes, Len(submissions_buf))
                            ELSE sub_flushes
          /\ cmt_file' = IF plain THEN cmt_file
                         ELSE [cmt_file EXCEPT ![name] = FinalFlush(@, comments_buf)]
          /\ txt_disk' = [txt_disk EXCEPT ![name] =
                            IF FinallyClose(txt_file) = "closed"
                            THEN @ \o txt_pending ELSE @]
          /\ txt_pending' = IF FinallyClose(txt_file) = "closed"
                            THEN <<>> ELSE txt_pending
          /\ txt_file' = FinallyClose(txt_file)
    /\ printed' = printed \o SavedMessages(name_of(sr_i), include_comments, plain)
    /\ state' = [state EXCEPT ![sr_i] = "Done"]
    /\ pc' = "idle"
    /\ sr_i' = sr_i + 1
    /\ UNCHANGED <<main_pc, args, env, gen, locals, emitted, expanded, sunk,
                   bases, resume, pure>>

\* A request raises Redirect, NotFound or Forbidden: the except clause prints
\* and returns, the finally clause flushes and closes the text file, and
\* main's loop goes on.
Failed ==
    /\ \E e \in Caught :
          /\ CanRaise(e)
          /\ printed' = Append(printed, SkippingMessage(name_of(sr_i), e))
    /\ LET name == name_of(sr_i)
       IN /\ sub_file' = [sub_file EXCEPT ![name] = OnFailed(@, submissions_buf)]
          /\ cmt_file' = [cmt_file EXCEPT ![name] = OnFailed(@, comments_buf)]
          /\ txt_disk' = [txt_disk EXCEPT ![name] =
                            IF FinallyClose(txt_file) = "closed"
                            THEN @ \o txt_pending ELSE @]
          /\ txt_pending' = IF FinallyClose(txt_file) = "closed"
                            THEN <<>> ELSE txt_pending
          /\ txt_file' = FinallyClose(txt_file)
    /\ expanded' = ExpandedAfterRaise
    /\ state' = [state EXCEPT ![sr_i] = "Failed"]
    /\ pc' = "idle"
    /\ sr_i' = sr_i + 1
    /\ UNCHANGED <<main_pc, args, env, gen, locals, emitted, sunk, bases,
                   sub_flushes, resume, pure>>

\* A request or a write raises any other exception: no except clause matches, the
\* finally clause flushes and closes the text file, and the exception leaves
\* download_submissions_and_comments and main.
Propagate ==
    /\ \E e \in Exceptions \ Caught : CanRaise(e)
    /\ LET name == name_of(sr_i)
       IN /\ txt_disk' = [txt_disk EXCEPT ![name] =
                            IF FinallyClose(txt_file) = "closed"
                            THEN @ \o txt_pending ELSE @]
          /\ txt_pending' = IF FinallyClose(txt_file) = "closed"
                            THEN <<>> ELSE txt_pending
          /\ txt_file' = FinallyClose(txt_file)
    /\ expanded' = ExpandedAfterRaise
    /\ state' = [state EXCEPT ![sr_i] = "Raised"]
    /\ pc' = "raised"
    /\ main_pc' = "aborted"
    /\ UNCHANGED <<sr_i, args, env, gen, locals, sub_file, cmt_file,
                   emitted, sunk, bases, sub_flushes, resume, printed, pure>>

\* main's loop has called download_submissions_and_comments for every
\* community: main returns.
MainReturn ==
    /\ main_pc = "loop" /\ pc = "idle" /\ sr_i > Len(subreddits)
    /\ main_pc' = "returned"
    /\ UNCHANGED <<subreddits, sr_i, after, before, limit_posts, plain,
                   include_comments, env, pc, gen, locals, txt_file,
                   txt_pending, disk, state, emitted, expanded, sunk, bases,
                   sub_flushes, resume, printed, pure>>

Next ==
    \/ Download
    \/ IterNewUntil
    \/ LoopBody
    \/ Finish
    \/ Failed
    \/ Propagate
    \/ MainReturn

Spec == Init /\ [][Next]_vars

(***************************************************************************)
(* The pure functions: text lines, raw records, submissions files          *)
(***************************************************************************)

\* Bounds of the inputs of the pure functions.
MaxFileLines == 2
MaxFields == 2
MaxProbeLen == 2

\* A text line is a sequence of characters.
\* str.lower(), on the characters the sample lines use.
lower(s) ==
    [i \in 1..Len(s) |-> CASE s[i] = "R" -> "r"
                           [] s[i] = "A" -> "a"
                           [] OTHER -> s[i]]

RECURSIVE lstrip(_)
lstrip(s) == IF s # <<>> /\ s[1] = " " THEN lstrip(Tail(s)) ELSE s

RECURSIVE rstrip(_)
rstrip(s) ==
    IF s # <<>> /\ s[Len(s)] = " " THEN rstrip(SubSeq(s, 1, Len(s) - 1)) ELSE s

\* str.strip()
strip(s) == rstrip(lstrip(s))

\* str.startswith(p)
startswith(s, p) == Len(s) >= Len(p) /\ SubSeq(s, 1, Len(p)) = p

\* str.split(): the whitespace-delimited tokens, none for a blank string.
RECURSIVE split(_)
split(s) ==
    LET t == lstrip(s)
    IN IF t = <<>> THEN <<>>
       ELSE LET n == CHOOSE n \in 1..(Len(t) + 1) :
                        /\ n = Len(t) + 1 \/ t[n] = " "
                        /\ \A m \in 1..(n - 1) : t[m] # " "
            IN <<SubSeq(t, 1, n - 1)>> \o split(SubSeq(t, n, Len(t)))

\* What a call does: it returns a value or raises an exception.
Return(v) == [kind |-> "return", value |-> v]
Raise(e) == [kind |-> "raise", exc |-> e]

\* load_subreddits_from_file, its loop over the lines of the file and the
\* test after it.  line.split()[0] raises IndexError when split() is empty.
RECURSIVE LoadLoop(_, _, _)
LoadLoop(lines, seen, subs) ==
    IF lines = <<>>
    THEN IF subs = <<>> THEN Raise("RuntimeError: No subreddits found")
         ELSE Return(subs)
    ELSE LET line == strip(Head(lines))
         IN IF line = <<>> \/ startswith(line, <<"#">>)
            THEN LoadLoop(Tail(lines), seen, subs)
            ELSE LET rest == IF startswith(lower(line), <<"r", "/">>)
                             THEN SubSeq(line, 3, Len(line)) ELSE line
                     toks == split(rest)
                 IN IF toks = <<>> THEN Raise("IndexError")
                    ELSE IF toks[1] # <<>> /\ toks[1] \notin seen
                    THEN LoadLoop(Tail(lines), seen \cup {toks[1]},
                                  Append(subs, toks[1]))
                    ELSE LoadLoop(Tail(lines), seen, subs)

load_subreddits_from_file(lines) == LoadLoop(lines, {}, <<>>)

\* Python values of a raw record: None, a string, an integer, or an object
\* with attributes (a Redditor has `name`, a Subreddit `display_name`).
NoneV == [t |-> "none"]
Str(x) == [t |-> "str", s |-> x]

\* obj.get(k)
obj_get(obj, k) == IF k \in DOMAIN obj THEN obj[k] ELSE NoneV

\* isinstance(v, str)
isinstance_str(v) == v.t = "str"

\* getattr(v, a, default)
getattr(v, a, default) == IF a \in DOMAIN v THEN v[a] ELSE default

\* str(v): a string is itself, anything else becomes its printed form.
str(v) ==
    CASE v.t = "str" -> v
      [] v.t = "none" -> Str("None")
      [] v.t = "int" -> Str("<digits>")
      [] OTHER -> Str("<object>")

normalize_raw(obj, fields) ==
    [k \in {fields[i] : i \in 1..Len(fields)} |-> obj_get(obj, k)]

\* normalize, its loop over the field list.
RECURSIVE NormalizeLoop(_, _, _)
NormalizeLoop(obj, fields, out) ==
    IF fields = <<>> THEN out
    ELSE LET k == Head(fields)
             v0 == obj_get(obj, k)
             v1 == IF k = "author" /\ v0 # NoneV /\ ~isinstance_str(v0)
                   THEN getattr(v0, "name", NoneV) ELSE v0
             v2 == IF k = "subreddit" /\ v1 # NoneV /\ ~isinstance_str(v1)
                   THEN str(getattr(v1, "display_name", v1)) ELSE v1
         IN NormalizeLoop(obj, Tail(fields),
                          [x \in DOMAIN out \cup {k} |->
                              IF x = k THEN v2 ELSE out[x]])

normalize(obj, fields) == NormalizeLoop(obj, fields, [x \in {} |-> NoneV])

\* Sample lines of a list file: names, marker-prefixed names (either case),
\* surrounding blanks, a trailing token, a comment, blank lines, and the
\* marker alone.
SampleLines ==
    { <<"a">>, <<"b">>, <<"r", "/", "a">>, <<"R", "/", "b">>,
      <<" ", "b", " ">>, <<"a", " ", "x">>, <<"#", "a">>, <<>>, <<" ">>,
      <<"r", "/">> }

ListFiles == SeqsUpTo(SampleLines, MaxFileLines)

\* Raw records: any of the keys, present or not, with any value.
Keys == {"author", "subreddit", "id"}

Values ==
    { NoneV, Str("s"), [t |-> "int", n |-> 1], [t |-> "obj"],
      [t |-> "obj", name |-> Str("bob")],
      [t |-> "obj", display_name |-> Str("pics")] }

RawRecords == UNION {[D -> Values] : D \in SUBSET Keys}

FieldLists == SeqsUpTo(Keys, MaxFields)

\* Lines of a submissions file: records this program wrote, an object
\* without created_utc, objects whose created_utc is null or a non-numeric
\* string, invalid JSON and JSON that is not an object.
ProbeLines ==
    { s_norm(t, Item(t, 0, 0)) : t \in 1..2 }
        \cup { [id |-> 0],
               [id |-> 0, created_utc |-> None],
               [id |-> 0, created_utc |-> NotANumber],
               [raw |-> "{oops"], [raw |-> "[1, 2]"] }

ProbeFiles == SeqsUpTo(ProbeLines, MaxProbeLen)

\* One call of one pure function, the program at rest.
InitPure ==
    /\ subreddits = <<>>
    /\ access = [n \in Names |-> "ok"]
    /\ upstream = [n \in Names |-> <<>>]
    /\ after = None /\ before = None /\ limit_posts = None
    /\ plain = FALSE /\ include_comments = TRUE
    /\ InitRun
    /\ ret = NoRet
    /\ \/ \E f \in ListFiles :
             call = [fn |-> "load_subreddits_from_file", lines |-> f]
       \/ \E o \in RawRecords, fs \in FieldLists :
             call = [fn |-> "normalize", obj |-> o, fields |-> fs]
       \/ \E f \in ProbeFiles :
             call = [fn |-> "last_submission_ts", exists |-> TRUE, lines |-> f]
       \/ call = [fn |-> "last_submission_ts", exists |-> FALSE, lines |-> <<>>]

CallLoadSubreddits ==
    /\ call.fn = "load_subreddits_from_file" /\ ret = NoRet
    /\ ret' = load_subreddits_from_file(call.lines)
    /\ UNCHANGED <<program, call>>

CallNormalize ==
    /\ call.fn = "normalize" /\ ret = NoRet
    /\ ret' = Return(normalize(call.obj, call.fields))
    /\ UNCHANGED <<program, call>>

CallLastSubmissionTs ==
    /\ call.fn = "last_submission_ts" /\ ret = NoRet
    /\ ret' = Return(last_submission_ts(call.exists, call.lines))
    /\ UNCHANGED <<program, call>>

NextPure ==
    \/ CallLoadSubreddits
    \/ CallNormalize
    \/ CallLastSubmissionTs

SpecPure == InitPure /\ [][NextPure]_vars

(***************************************************************************)
(* Vocabulary of the properties                                            *)
(***************************************************************************)

Started == run >= 1

Ended == pc \in {"idle", "raised"}

TooFresh(i) == before # None /\ feed[i].created_utc > before

TooOld(i) == after # None /\ feed[i].created_utc < after

\* The scanned items inside the window, in feed order.
InWindowScanned ==
    LET InWindow(i) == ~TooFresh(i) /\ ~TooOld(i)
    IN SelectSeq([i \in 1..pos |-> i], InWindow)

\* The submission records of the posts the loop body has processed.
PostsSunk == [k \in 1..Len(sunk) |-> s_norm(sunk[k].id, feed[sunk[k].id])]

\* The submission records of the posts the generator has yielded.
PostsEmitted == [k \in 1..Len(emitted) |-> s_norm(emitted[k], feed[emitted[k]])]

\* The comment records collected for the first k processed posts.
RECURSIVE CmtsSunk(_)
CmtsSunk(k) ==
    IF k = 0 THEN <<>>
    ELSE CmtsSunk(k - 1)
            \o SubSeq(comments_list(sunk[k].id, feed[sunk[k].id]), 1, sunk[k].n)

(***************************************************************************)
(* C1: the time window of iter_new_until                                   *)
(***************************************************************************)

\* The parts of C1 that do not depend on where the scan stops: nothing at or
\* after an item older than `after` is emitted, every item newer than
\* `before` is skipped, every other scanned item is emitted (in feed order),
\* and the scan ends only when the feed is exhausted, the limit is reached
\* or the last scanned item is older than `after` and not newer than `before`.
C1_Emission ==
    /\ \A k \in 1..Len(emitted) : \A i \in 1..emitted[k] : ~TooOld(i)
    /\ \A i \in 1..pos : TooFresh(i) => \A k \in 1..Len(emitted) : emitted[k] # i
    /\ emitted = InWindowScanned
    /\ pc = "flushing" =>
          \/ pos = Len(feed)
          \/ LimitReached(limit_posts, count)
          \/ pos >= 1 /\ TooOld(pos) /\ ~TooFresh(pos)

C2_CeilingNeverExceeded ==
    (Started /\ limit_posts # None) =>
        /\ Len(emitted) <= limit_posts
        /\ count <= Len(emitted)

(***************************************************************************)
(* C3: one community's failure never aborts the batch                      *)
(***************************************************************************)

\* C3: main does not end before download_submissions_and_comments has run
\* for every requested community, however the earlier ones ended.
C3_BatchNeverAborted ==
    main_pc # "loop" => \A i \in DOMAIN state : state[i] # "Pending"

(***************************************************************************)
(* C4: a failed run discards its buffers                                   *)
(***************************************************************************)

\* C4: in line-delimited mode, after a run has ended Failed, each file holds
\* what it held when the run began followed by exactly the records flushed
\* before the failure: the records still buffered are in no file.
C4_FailedDiscardsBuffers ==
    (Started /\ ~plain /\ state[run] = "Failed") =>
        /\ sub_file[name_of(run)] =
              sub_base \o SubSeq(PostsSunk, 1, subs_saved - Len(submissions_buf))
        /\ cmt_file[name_of(run)] =
              cmt_base \o SubSeq(CmtsSunk(Len(sunk)), 1,
                                 cmts_saved - Len(comments_buf))

\* A run failed after a periodic flush with records in both buffers.
C4_Witness ==
    /\ Started /\ ~plain /\ state[run] = "Failed"
    /\ sub_flushes # <<>>
    /\ submissions_buf # <<>> /\ comments_buf # <<>>

(***************************************************************************)
(* C5: a normal completion flushes everything                              *)
(***************************************************************************)

\* C5: in line-delimited mode, after a run has ended Done, the submissions
\* file holds what it held before followed by every emitted post, once and
\* in feed order, and the comments file every collected comment, once.
C5_DoneFlushesAll ==
    (Started /\ ~plain /\ state[run] = "Done") =>
        /\ Len(sunk) = Len(emitted)
        /\ sub_file[name_of(run)] = sub_base \o PostsEmitted
        /\ cmt_file[name_of(run)] = cmt_base \o CmtsSunk(Len(sunk))

\* A run ended Done with a partial last buffer after a periodic flush.
C5_Witness ==
    /\ Started /\ ~plain /\ state[run] = "Done"
    /\ Len(sub_flushes) = 2 /\ sub_flushes[2] < PostsFlushAt
    /\ comments_buf # <<>>

(***************************************************************************)
(* C6: the flush thresholds                                                *)
(***************************************************************************)

\* C6: in line-delimited mode, between posts the posts buffer holds fewer
\* than 50 records and the comments buffer fewer than 200; every periodic
\* posts flush writes exactly 50 lines; and when the number of posts
\* appended is a multiple of 50, exactly that many lines have been written,
\* in flushes of 50.
C6_FlushThresholds ==
    (Started /\ ~plain) =>
        /\ Len(submissions_buf) < PostsFlushAt
        /\ Len(comments_buf) < CmtsFlushAt
        /\ \A k \in 1..Len(sub_flushes) :
              (k < Len(sub_flushes) \/ state[run] # "Done")
                 => sub_flushes[k] = PostsFlushAt
        /\ subs_saved % PostsFlushAt = 0 =>
              /\ Len(sub_file[name_of(run)]) = Len(sub_base) + subs_saved
              /\ Len(sub_flushes) = subs_saved \div PostsFlushAt
              /\ \A k \in 1..Len(sub_flushes) : sub_flushes[k] = PostsFlushAt

\* A run of 100 posts ended Done after two flushes of 50.
C6_Witness ==
    /\ Started /\ ~plain /\ state[run] = "Done"
    /\ subs_saved = 2 * PostsFlushAt
    /\ sub_flushes = <<PostsFlushAt, PostsFlushAt>>

(***************************************************************************)
(* C7: resolution before fetching                                          *)
(***************************************************************************)

\* C7: a community that resolve_subreddit rejects ends Skipped, and its feed
\* is never requested.
C7_UnresolvableIsSkipped ==
    \A i \in DOMAIN state :
        resolve_subreddit(subreddits[i]) = NoSubreddit
            => state[i] \in {"Pending", "Skipped"}

(***************************************************************************)
(* C8: no expansion for a post that reports no comment                     *)
(***************************************************************************)

\* C8: comments are expanded only for posts that report a nonzero comment
\* count, and only when comments are requested; a post that reports zero is
\* sunk with an empty comment list.
C8_NoExpansionAtZero ==
    Started =>
        /\ \A i \in expanded : include_comments /\ feed[i].num_comments # 0
        /\ \A k \in 1..Len(sunk) :
              feed[sunk[k].id].num_comments = 0 => sunk[k].n = 0

\* With comments requested, a post that reports zero comments while its
\* forest lists one was sunk without comments, and another was expanded.
C8_Witness ==
    /\ Started /\ include_comments /\ expanded # {}
    /\ \E k \in 1..Len(sunk) :
          /\ feed[sunk[k].id].num_comments = 0
          /\ feed[sunk[k].id].tree > 0
          /\ sunk[k].n = 0

(***************************************************************************)
(* C9: the text file is always flushed and closed                          *)
(***************************************************************************)

TxtContent(c) ==
    txt_disk[c] \o (IF Started /\ c = name_of(run) THEN txt_pending ELSE <<>>)

\* C10: in text mode a community's file, once a run has opened it, starts
\* with the header line and holds it nowhere else, after any number of runs.
C10_HeaderOnce ==
    plain =>
        /\ \A c \in Names :
              LET t == TxtContent(c)
              IN t # <<>> =>
                    /\ t[1] = HeaderLine
                    /\ \A k \in 2..Len(t) : t[k].kind # "header"
        /\ Started => TxtContent(name_of(run)) # <<>>

\* A second run of the same community appended to a file that already held
\* the header and a post.
C10_Witness ==
    /\ plain /\ run = 2 /\ Ended
    /\ subreddits[1] = subreddits[2]
    /\ Len(txt_base) >= 2
    /\ Len(txt_disk[name_of(run)]) > Len(txt_base)

(***************************************************************************)
(* C11: text mode writes each post when it is processed                    *)
(***************************************************************************)

\* The blocks of the posts the loop body has processed, each with every
\* comment of its expanded forest.
BlocksSunk ==
    [k \in 1..Len(sunk) |->
        [kind |-> "post", id |-> sunk[k].id,
         comments |-> IF sunk[k].id \in expanded
                      THEN comments_list(sunk[k].id, feed[sunk[k].id])
                      ELSE <<>>]]

\* C11: in text mode, once a run has ended (however it ended), the text
\* file holds what it held before, the header if it was empty, and then the
\* block of every post processed before the end, in feed order and with all
\* its comments; a post that was yielded but whose expansion or fetch failed
\* has no block.
C11_TextWrittenPerPost ==
    (Started /\ plain /\ Ended) =>
        /\ txt_disk[name_of(run)] =
              txt_base \o (IF txt_base = <<>> THEN <<HeaderLine>> ELSE <<>>)
                       \o BlocksSunk
        /\ \A k \in 1..Len(sunk) : sunk[k].id = emitted[k]
        /\ Len(emitted) - Len(sunk) \in {0, 1}

\* A run failed while expanding its second post, after the first had been
\* written with its comments.
C11_Witness ==
    /\ Started /\ plain /\ state[run] = "Failed"
    /\ Len(sunk) = 1 /\ Len(emitted) = 2
    /\ sunk[1].n > 0
    /\ Len(txt_disk[name_of(run)]) = 2

(***************************************************************************)
(* C12: what a failure prints                                              *)
(***************************************************************************)

\* C12: when a community's call has ended Skipped or Failed, one of the
\* messages it printed contains the community's name and the class of the
\* failure.
C12_FailureNamesCommunity ==
    (Started /\ Ended /\ state[run] \in {"Skipped", "Failed"}) =>
        \E k \in 1..Len(printed) :
            /\ name_of(run) \in printed[k].mentions
            /\ printed[k].classification # ""

(***************************************************************************)
(* C13: last_submission_ts                                                 *)
(***************************************************************************)

\* The creation timestamps a file's lines hold: those of its lines that are
\* JSON objects with an integer created_utc.
ObservedStamps(lines) ==
    { lines[i].created_utc :
        i \in { j \in 1..Len(lines) :
                  /\ "created_utc" \in DOMAIN lines[j]
                  /\ lines[j].created_utc \notin {None, NotANumber} } }

SetMin(S) == CHOOSE m \in S : \A x \in S : m <= x

\* C13: last_submission_ts never raises; it returns the least creation
\* timestamp observed on the lines of the file, and None when the file is
\* absent or empty or no line of it holds one.
C13_OldestObserved ==
    (call.fn = "last_submission_ts" /\ ret # NoRet) =>
        ret = Return(IF ObservedStamps(call.lines) = {} THEN None
                     ELSE SetMin(ObservedStamps(call.lines)))

(***************************************************************************)
(* C14: the resume probe changes nothing                                   *)
(***************************************************************************)

\* C14: whatever the submissions file held when the run began,
\* iter_new_until receives the caller's `after` (None included) and emits
\* the scanned items of the window; so when a community is run twice with
\* `after` absent and both runs end Done, the second appends again the
\* posts the first appended.
C14_ProbeInformational ==
    Started =>
        /\ gen_after = after
        /\ emitted = InWindowScanned
        /\ (/\ after = None /\ ~plain /\ run = 2
            /\ subreddits[1] = subreddits[2]
            /\ state[1] = "Done" /\ state[2] = "Done")
              => /\ sub_file[name_of(run)] = sub_base \o PostsEmitted
                 /\ Len(sub_base) >= Len(PostsEmitted)
                 /\ SubSeq(sub_base, Len(sub_base) - Len(PostsEmitted) + 1,
                           Len(sub_base)) = PostsEmitted

\* A second run of a community found a timestamp in the file the first had
\* written, and appended the same posts again.
C14_Witness ==
    /\ run = 2 /\ subreddits[1] = subreddits[2]
    /\ state[1] = "Done" /\ state[2] = "Done"
    /\ after = None /\ ~plain
    /\ existing_oldest # None
    /\ emitted # <<>>
    /\ sub_file[name_of(run)] = sub_base \o PostsEmitted

(***************************************************************************)
(* C15: the window bounds every emitted item                               *)
(***************************************************************************)

InvertedWindow == after # None /\ before # None /\ after > before

\* C15: every emitted item lies inside each bound that is set; and when
\* both are set with after > before, nothing is ever yielded, whatever the
\* feed, and the scan itself ends without an error.
C15_WindowBounds ==
    Started =>
        /\ \A k \in 1..Len(emitted) :
              LET cu == feed[emitted[k]].created_utc
              IN /\ after # None => after <= cu
                 /\ before # None => cu <= before
        /\ InvertedWindow => emitted = <<>> /\ sunk = <<>> /\ pc # "sinking"

\* A run over an inverted window scanned a feed of three posts to its end
\* and ended Done with nothing emitted.
C15_Witness ==
    /\ Started /\ InvertedWindow /\ state[run] = "Done"
    /\ pos = 3 /\ emitted = <<>>
    /\ sub_file[name_of(run)] = sub_base

(***************************************************************************)
(* C16: load_subreddits_from_file                                          *)
(***************************************************************************)

\* The name a line of the list file yields, <<>> when it yields none: the
\* first token of the line, the marker stripped; blank and comment lines and
\* a marker followed by nothing yield none.
NameOfLine(l) ==
    LET t == strip(l)
        body == IF startswith(lower(t), <<"r", "/">>)
                THEN SubSeq(t, 3, Len(t)) ELSE t
    IN IF t = <<>> \/ t[1] = "#" \/ split(body) = <<>> THEN <<>>
       ELSE split(body)[1]

\* The names of the lines, without duplicates, in first-seen order.
RECURSIVE FirstSeen(_)
FirstSeen(lines) ==
    IF lines = <<>> THEN <<>>
    ELSE LET before_last == FirstSeen(SubSeq(lines, 1, Len(lines) - 1))
             nm == NameOfLine(lines[Len(lines)])
         IN IF nm = <<>> \/ \E i \in 1..Len(before_last) : before_last[i] = nm
            THEN before_last
            ELSE Append(before_last, nm)

\* C16: load_subreddits_from_file returns the names of the lines, without
\* duplicates and in first-seen order, and raises the 'No subreddits found'
\* error when no line yields a name.
C16_NamesOrNoSubreddits ==
    (call.fn = "load_subreddits_from_file" /\ ret # NoRet) =>
        IF FirstSeen(call.lines) = <<>>
        THEN ret = Raise("RuntimeError: No subreddits found")
        ELSE ret = Return(FirstSeen(call.lines))

(***************************************************************************)
(* C17: normalize                                                          *)
(***************************************************************************)

\* C17: normalize returns a mapping whose keys are exactly the fields of
\* the list; a field the record lacks maps to None; an author that is
\* neither None nor a string maps to its name, or None without one; a
\* community that is neither None nor a string maps to its display name, or
\* its string form without one; every other value is unchanged.
C17_NormalizeShape ==
    (call.fn = "normalize" /\ ret # NoRet) =>
        /\ ret.kind = "return"
        /\ DOMAIN ret.value = {call.fields[i] : i \in 1..Len(call.fields)}
        /\ \A k \in DOMAIN ret.value :
              ret.value[k] =
                 IF k \notin DOMAIN call.obj THEN NoneV
                 ELSE LET v == call.obj[k]
                      IN IF v.t \in {"str", "none"} THEN v
                         ELSE IF k = "author"
                         THEN (IF "name" \in DOMAIN v THEN v.name ELSE NoneV)
                         ELSE IF k = "subreddit"
                         THEN (IF "display_name" \in DOMAIN v
                               THEN v.display_name ELSE str(v))
                         ELSE v

\* normalize has reduced an author object to its name and mapped a missing
\* community to None.
C17_Witness ==
    /\ call.fn = "normalize" /\ ret # NoRet
    /\ call.fields = <<"author", "subreddit">>
    /\ DOMAIN call.obj = {"author", "id"}
    /\ call.obj["author"] = [t |-> "obj", name |-> Str("bob")]
    /\ ret.value["author"] = Str("bob")
    /\ ret.value["subreddit"] = NoneV

(***************************************************************************)
(* C18: a failed run loses less than one buffer of each kind               *)
(***************************************************************************)

\* Lines the run has added to a file, given what the file held before.
NewLines(file, base) == SubSeq(file, Len(base) + 1, Len(file))

\* C18: in line-delimited mode, after a run has ended Failed, fewer than 50
\* of the posts it processed and fewer than 200 of the comments it collected
\* from processed posts are missing from the files.
C18_FailedLosesLessThanABuffer ==
    (Started /\ ~plain /\ state[run] = "Failed") =>
        LET lost_posts == subs_saved - Len(NewLines(sub_file[name_of(run)], sub_base))
            lost_cmts == cmts_saved - Len(NewLines(cmt_file[name_of(run)], cmt_base))
        IN /\ 0 <= lost_posts /\ lost_posts < PostsFlushAt
           /\ 0 <= lost_cmts /\ lost_cmts < CmtsFlushAt

\* A run failed one post short of its second posts flush, after a comments
\* flush, with comments still buffered.
C18_Witness ==
    /\ Started /\ ~plain /\ state[run] = "Failed"
    /\ Len(sub_flushes) = 1
    /\ Len(submissions_buf) = PostsFlushAt - 1
    /\ cmt_file[name_of(run)] # cmt_base
    /\ Len(comments_buf) > 0

(***************************************************************************)
(* C19: the output files are append-only                                   *)
(***************************************************************************)

IsPrefix(s, t) == Len(s) <= Len(t) /\ SubSeq(t, 1, Len(s)) = s

\* C19: no step of any run, in either mode and however the run ends,
\* truncates, rewrites or reorders what an output file holds: every file's
\* contents before a step are a prefix of its contents after it.
C19_AppendOnly ==
    [][\A c \in Names :
          /\ IsPrefix(sub_file[c], sub_file'[c])
          /\ IsPrefix(cmt_file[c], cmt_file'[c])
          /\ IsPrefix(txt_disk[c], txt_disk'[c])]_vars

\* A second run of a community has appended posts and comments to files
\* that already held some.
C19_Witness ==
    /\ ~plain /\ run = 2 /\ Ended
    /\ subreddits[1] = subreddits[2]
    /\ sub_base # <<>> /\ cmt_base # <<>>
    /\ Len(sub_file[name_of(run)]) > Len(sub_base)
    /\ Len(cmt_file[name_of(run)]) > Len(cmt_base)

(***************************************************************************)
(* C20: comments in the file and their posts                               *)
(***************************************************************************)

\* Every comment line of cmts has its root post among the lines of posts.
RootsPresent(cmts, posts) ==
    \A k \in 1..Len(cmts) :
        \E j \in 1..Len(posts) :
            /\ "id" \in DOMAIN posts[j]
            /\ posts[j].id = cmts[k].link_id

\* C20 as stated: in line-delimited mode, at every terminal state of a run
\* (Done or Failed) every comment in the comments file has its root post in
\* the submissions file.
C20_RootsPresentAtEnd ==
    (Started /\ ~plain /\ state[run] \in {"Done", "Failed"}) =>
        RootsPresent(cmt_file[name_of(run)], sub_file[name_of(run)])

\* C20 amended: in line-delimited mode, when a run ends Done, every comment
\* it appended to the comments file has its root post among the posts it
\* appended to the submissions file.  (After Failed, comments flushed at the
\* 200 threshold can be in the file while their post was only buffered.)
C20_RootsPresentAtDone ==
    (Started /\ ~plain /\ state[run] = "Done") =>
        RootsPresent(NewLines(cmt_file[name_of(run)], cmt_base),
                     NewLines(sub_file[name_of(run)], sub_base))

\* A run ended Done whose comments were flushed at the threshold while their
\* post was still buffered.
C20_Witness ==
    /\ Started /\ ~plain /\ state[run] = "Done"
    /\ subs_saved < PostsFlushAt
    /\ cmts_saved >= CmtsFlushAt
    /\ Len(NewLines(cmt_file[name_of(run)], cmt_base)) = cmts_saved

====
